---- MODULE Spec2Model ----
(***************************************************************************)
(* Model of quadtree/draw_tree.py: the two-pass layout of a DrawTree.      *)
(*                                                                         *)
(* A DrawTree node is identified by its path from the root: the sequence   *)
(* of quadrant indices followed from the root (the root is << >>).  The    *)
(* children array of node n holds a DrawTree in slot q exactly when        *)
(* Append(n, q) is in tree.                                                *)
(*                                                                         *)
(* Columns are Python floats that only ever take dyadic values here        *)
(* (sums, differences and halves of small integers), which floats hold     *)
(* exactly.  They are modelled as fixed-point integers: the value v is     *)
(* stored as v * Scale.                                                    *)
(***************************************************************************)
EXTENDS Integers, Sequences, FiniteSets, TLC

\* ---------------------------------------------------------------- bounds
MaxNodes == 10     \* largest tree (occupied quadrants packed to the left)
MaxDepth == 3      \* deepest node of any tree
GapNodes == 4      \* largest tree with arbitrary quadrant occupancy
MaxRuns  == 2      \* number of layout() calls on the same DrawTree

\* ------------------------------------------------------ program constants
NumQuads == 4
node_w == 25
magx == 30

\* One abstract column unit.  Every division by two in assign can add one
\* binary digit, and there is at most one division per node.
Scale == 2 ^ MaxNodes

XInit    == (0 - 1) * Scale
XMinInit == 99999 * Scale
XMaxInit == (0 - 99999) * Scale

Quads == 0 .. (NumQuads - 1)
Root == << >>

Max(a, b) == IF a >= b THEN a ELSE b
Min(a, b) == IF a <= b THEN a ELSE b

\* ------------------------------------------------------ the input trees
\* One more DrawTree node added to each tree of S, below depth MaxDepth.
\* If packed, a quadrant is only occupied when the one before it is.
Grow(S, packed) ==
    { T \cup {Append(p, q)} : <<T, p, q>> \in
        { c \in S \X (UNION S) \X Quads :
            /\ c[2] \in c[1]
            /\ Len(c[2]) < MaxDepth
            /\ Append(c[2], c[3]) \notin c[1]
            /\ packed => (c[3] = 0 \/ Append(c[2], c[3] - 1) \in c[1]) } }

RECURSIVE TreesOfSize(_, _)
TreesOfSize(k, packed) ==
    IF k = 1 THEN {{Root}} ELSE Grow(TreesOfSize(k - 1, packed), packed)

Trees ==
    UNION ({TreesOfSize(k, TRUE) : k \in 1 .. MaxNodes}
           \cup {TreesOfSize(k, FALSE) : k \in 1 .. GapNodes})

VARIABLES tree, x, y, mod, nexts, stack, phase, runs, x1, first

vars == <<tree, x, y, mod, nexts, stack, phase, runs, x1, first>>

\* ------------------------------------------------------------- helpers
HasChild(n, q) == Append(n, q) \in tree

\* The first occupied quadrant at or after q, NumQuads when there is none.
NextChild(n, q) ==
    IF \E r \in Quads : r >= q /\ HasChild(n, r)
    THEN CHOOSE r \in Quads :
            /\ r >= q /\ HasChild(n, r)
            /\ \A s \in Quads : (s >= q /\ HasChild(n, s)) => r <= s
    ELSE NumQuads

\* defaultdict(int): a missing key reads as 0.
Get(d, k) == IF k \in DOMAIN d THEN d[k] ELSE 0
Put(d, k, v) == [j \in (DOMAIN d) \cup {k} |-> IF j = k THEN v ELSE d[j]]

EmptyDict == [j \in {} |-> 0]

Top == stack[Len(stack)]
Pop == SubSeq(stack, 1, Len(stack) - 1)
SetTop(f) == [stack EXCEPT ![Len(stack)] = f]

\* ------------------------------------------------------------ __init__
ConstructY(n) == Len(n)

Init ==
    /\ tree \in Trees
    /\ x = [n \in tree |-> XInit]
    /\ y = [n \in tree |-> ConstructY(n)]
    /\ mod = [n \in tree |-> 0]
    /\ nexts = EmptyDict
    /\ stack = << >>
    /\ phase = "ready"
    /\ runs = 0
    /\ x1 = x
    /\ first = [x |-> x, y |-> y, mod |-> mod]

\* -------------------------------------------------------------- layout
\* layout(): self.assign(0, defaultdict(int))
Layout ==
    /\ phase = "ready"
    /\ runs < MaxRuns
    /\ phase' = "assign"
    /\ nexts' = EmptyDict
    /\ stack' = <<[node |-> Root, depth |-> 0, pc |-> "place"]>>
    /\ UNCHANGED <<tree, x, y, mod, runs, x1, first>>

\* -------------------------------------------------------------- assign
\* slip: the frontier advances by one column instead of two
PlaceNextBug(n) == n + Scale

PlaceNext(n) == n + 2 * Scale

AssignY(depth) == depth

\* x_min, x_max = 99999, -99999; self.x = nexts[depth]; nexts[depth] += 2;
\* self.y = depth
AssignPlace ==
    /\ phase = "assign"
    /\ stack # << >>
    /\ Top.pc = "place"
    /\ LET f == Top
           slot == Get(nexts, f.depth)
       IN /\ x' = [x EXCEPT ![f.node] = slot]
          /\ nexts' = Put(nexts, f.depth, PlaceNext(slot))
          /\ y' = [y EXCEPT ![f.node] = AssignY(f.depth)]
          /\ stack' = SetTop([node |-> f.node, depth |-> f.depth, pc |-> "loop",
                              quad |-> 0, x_min |-> XMinInit, x_max |-> XMaxInit])
    /\ UNCHANGED <<tree, mod, phase, runs, x1, first>>

\* slip: the child is assigned at its parent's depth
ChildDepthBug(depth) == depth

ChildDepth(depth) == depth + 1

\* the loop reaches an occupied quadrant: self.children[quad].assign(depth+1, nexts)
AssignRecurse ==
    /\ phase = "assign"
    /\ stack # << >>
    /\ Top.pc = "loop"
    /\ LET f == Top
           q == NextChild(f.node, f.quad)
       IN /\ q < NumQuads
          /\ stack' = Append(SetTop([f EXCEPT !.quad = q]),
                             [node |-> Append(f.node, q),
                              depth |-> ChildDepth(f.depth), pc |-> "place"])
    /\ UNCHANGED <<tree, x, y, mod, nexts, phase, runs, x1, first>>

\* slip: the node is put over its rightmost child
ChildMidBug(xmin, xmax) == xmax

ChildMid(xmin, xmax) == (xmin + xmax) \div 2

\* slip: the shift is accumulated onto the mod of an earlier run
ShiftModBug(oldmod, sx, mid) == oldmod + (sx - mid)

ShiftMod(oldmod, sx, mid) == sx - mid

\* slip: the reservation has the wrong sign
ReserveBug(n, m) == n - m

Reserve(n, m) == n + m

\* slip: the frontier is not moved after the node is centred
CenterNextBug(n, sx) == n

\* slip: the two columns of room are left out
CenterNextNoRoom(n, sx) == Max(n, sx)

CenterNext(n, sx) == Max(n + 2 * Scale, sx + 2 * Scale)

\* the loop is over: centre self over the children, return to the caller,
\* which folds the returned child's x into its x_min and x_max
AssignCenter ==
    /\ phase = "assign"
    /\ stack # << >>
    /\ Top.pc = "loop"
    /\ LET f == Top
           mid == ChildMid(f.x_min, f.x_max)
           left == f.x_min # XMinInit /\ mid < x[f.node]
           right == f.x_min # XMinInit /\ mid > x[f.node]
           newx == IF right THEN mid ELSE x[f.node]
       IN /\ NextChild(f.node, f.quad) = NumQuads
          /\ x' = [x EXCEPT ![f.node] = newx]
          /\ mod' = IF left
                    THEN [mod EXCEPT ![f.node] = ShiftMod(mod[f.node], x[f.node], mid)]
                    ELSE mod
          /\ nexts' = IF left
                      THEN Put(nexts, f.depth + 1,
                               Reserve(Get(nexts, f.depth + 1), mod'[f.node]))
                      ELSE IF right
                           THEN Put(nexts, f.depth,
                                    CenterNext(Get(nexts, f.depth), newx))
                           ELSE nexts
          /\ stack' = IF Len(stack) = 1 THEN << >>
                      ELSE LET c == stack[Len(stack) - 1]
                           IN [Pop EXCEPT ![Len(stack) - 1] =
                                  [c EXCEPT !.quad = c.quad + 1,
                                            !.x_min = Min(c.x_min, newx),
                                            !.x_max = Max(c.x_max, newx)]]
    /\ UNCHANGED <<tree, y, phase, runs, x1, first>>

\* layout(): self.adjust(0), once assign has returned
LayoutAdjust ==
    /\ phase = "assign"
    /\ stack = << >>
    /\ phase' = "adjust"
    /\ stack' = <<[node |-> Root, modsum |-> 0, pc |-> "shift"]>>
    /\ x1' = x
    /\ UNCHANGED <<tree, x, y, mod, nexts, runs, first>>

\* -------------------------------------------------------------- adjust
ShiftX(sx, modsum) == sx + modsum

\* slip: the node's own mod is not passed down
ChildModsumBug(modsum, m) == modsum

\* slip: the shifts of the ancestors are dropped
ChildModsumDrop(modsum, m) == m

ChildModsum(modsum, m) == modsum + m

\* self.x += modsum; modsum += self.mod
AdjustShift ==
    /\ phase = "adjust"
    /\ stack # << >>
    /\ Top.pc = "shift"
    /\ LET f == Top
       IN /\ x' = [x EXCEPT ![f.node] = ShiftX(x[f.node], f.modsum)]
          /\ stack' = SetTop([node |-> f.node, pc |-> "loop", quad |-> 0,
                              modsum |-> ChildModsum(f.modsum, mod[f.node])])
    /\ UNCHANGED <<tree, y, mod, nexts, phase, runs, x1, first>>

\* the loop reaches an occupied quadrant: self.children[quad].adjust(modsum)
AdjustRecurse ==
    /\ phase = "adjust"
    /\ stack # << >>
    /\ Top.pc = "loop"
    /\ LET f == Top
           q == NextChild(f.node, f.quad)
       IN /\ q < NumQuads
          /\ stack' = Append(SetTop([f EXCEPT !.quad = q + 1]),
                             [node |-> Append(f.node, q),
                              modsum |-> f.modsum, pc |-> "shift"])
    /\ UNCHANGED <<tree, x, y, mod, nexts, phase, runs, x1, first>>

\* the loop is over: return to the caller
AdjustReturn ==
    /\ phase = "adjust"
    /\ stack # << >>
    /\ Top.pc = "loop"
    /\ NextChild(Top.node, Top.quad) = NumQuads
    /\ stack' = Pop
    /\ UNCHANGED <<tree, x, y, mod, nexts, phase, runs, x1, first>>

\* layout() returns; the frontier mapping is dropped with the call
LayoutReturn ==
    /\ phase = "adjust"
    /\ stack = << >>
    /\ phase' = "ready"
    /\ runs' = runs + 1
    /\ first' = IF runs = 0 THEN [x |-> x, y |-> y, mod |-> mod] ELSE first
    /\ UNCHANGED <<tree, x, y, mod, nexts, stack, x1>>

Next ==
    \/ Layout
    \/ AssignPlace
    \/ AssignRecurse
    \/ AssignCenter
    \/ LayoutAdjust
    \/ AdjustShift
    \/ AdjustRecurse
    \/ AdjustReturn
    \/ LayoutReturn

Spec == Init /\ [][Next]_vars


\* ===================================================== tree vocabulary
Parent(n) == SubSeq(n, 1, Len(n) - 1)

Children(n) == {c \in tree : c # Root /\ Parent(c) = n}

\* a is visited before b in the NW, NE, SW, SE pre-order (same depth)
Precedes(a, b) ==
    /\ Len(a) = Len(b)
    /\ \E i \in 1 .. Len(a) :
          /\ a[i] < b[i]
          /\ \A j \in 1 .. (i - 1) : a[j] = b[j]

\* a and b are visited consecutively among the nodes of their depth
Consecutive(a, b) ==
    /\ Precedes(a, b)
    /\ ~ \E c \in tree : Precedes(a, c) /\ Precedes(c, b)

Siblings(a, b) == a # Root /\ b # Root /\ a # b /\ Parent(a) = Parent(b)

MinX(S) == CHOOSE v \in {x[c] : c \in S} : \A c \in S : v <= x[c]
MaxX(S) == CHOOSE v \in {x[c] : c \in S} : \A c \in S : v >= x[c]

\* the sum of the mod values of the strict ancestors of n
RECURSIVE AncestorMods(_)
AncestorMods(n) ==
    IF n = Root THEN 0 ELSE mod[Parent(n)] + AncestorMods(Parent(n))

Abs(v) == IF v >= 0 THEN v ELSE 0 - v

Depths == 0 .. (MaxDepth + 1)

\* layout() has returned at least once
Laid == phase = "ready" /\ runs >= 1

\* assign has returned to layout() and adjust has not started
EndOfPass1 == phase = "assign" /\ stack = << >>

\* ================================================================ claims

\* C1 as stated: after layout(), two nodes of the same depth visited
\* consecutively are at least 2 columns apart, the later one to the right.
C1_SpacingAtDepth ==
    Laid => \A a, b \in tree :
        Consecutive(a, b) => x[b] >= x[a] + 2 * Scale

\* C1 amended: after layout(), two children of the same parent visited
\* consecutively are at least 2 columns apart, the later one to the right.
C1_SiblingSpacing ==
    Laid => \A a, b \in tree :
        (Siblings(a, b) /\ Consecutive(a, b)) => x[b] >= x[a] + 2 * Scale

C1_Witness ==
    /\ Laid
    /\ \E a, b \in tree :
          /\ Siblings(a, b) /\ Consecutive(a, b)
          /\ x[a] # x1[a]
          /\ x[b] = x[a] + 2 * Scale

\* C2 as stated: after layout(), no two distinct nodes of the same depth
\* have equal columns or columns closer than node_w/magx.
C2_NoCollisionAtDepth ==
    Laid => \A a, b \in tree :
        (a # b /\ Len(a) = Len(b)) =>
            /\ x[a] # x[b]
            /\ Abs(x[a] - x[b]) * magx >= node_w * Scale

\* C2 amended: after layout(), no two distinct children of the same parent
\* have equal columns or columns closer than node_w/magx, so their
\* rectangles [x*magx, x*magx + node_w] are disjoint.
C2_SiblingsDisjoint ==
    Laid => \A a, b \in tree :
        Siblings(a, b) =>
            \/ x[a] * magx + node_w * Scale < x[b] * magx
            \/ x[b] * magx + node_w * Scale < x[a] * magx

C2_Witness ==
    /\ Laid
    /\ \E a, b \in tree :
          /\ Siblings(a, b)
          /\ Children(a) # {}
          /\ x[a] # x1[a]
          /\ x[b] = x[a] + 2 * Scale

\* C3: after layout(), a node with children lies between its leftmost and
\* its rightmost child, and on its child when it has exactly one.
C3_WithinChildSpan ==
    Laid => \A n \in tree :
        Children(n) # {} =>
            /\ MinX(Children(n)) <= x[n]
            /\ x[n] <= MaxX(Children(n))
            /\ Cardinality(Children(n)) = 1 => \A c \in Children(n) : x[n] = x[c]

C3_Witness ==
    /\ Laid
    /\ \E n, m \in tree :
          /\ Cardinality(Children(n)) = 1 /\ mod[n] > 0
          /\ Cardinality(Children(m)) > 1 /\ mod[m] > 0

\* C4: after adjust, every column is its column at the end of Pass 1 plus
\* the mods of its strict ancestors (so the root does not move); and at the
\* end of Pass 1 a node whose children's midpoint is left of it has mod > 0.
C4_ShiftComposition ==
    /\ Laid => \A n \in tree : x[n] = x1[n] + AncestorMods(n)
    /\ EndOfPass1 => \A n \in tree :
          (/\ Children(n) # {}
           /\ MinX(Children(n)) + MaxX(Children(n)) < 2 * x[n]) => mod[n] > 0

C4_Witness ==
    /\ Laid
    /\ \E n \in tree :
          /\ Len(n) >= 3
          /\ mod[Parent(n)] > 0
          /\ mod[Parent(Parent(n))] > 0
          /\ x[n] = x1[n] + mod[Parent(n)] + mod[Parent(Parent(n))]

\* C5: a second layout() on a laid-out DrawTree leaves every x, y and mod
\* equal to its value after the first layout().
C5_RepeatedLayout ==
    (phase = "ready" /\ runs >= 2) =>
        /\ x = first.x
        /\ y = first.y
        /\ mod = first.mod

C5_Witness ==
    /\ phase = "ready"
    /\ runs = 2
    /\ \E n \in tree : mod[n] > 0 /\ n # Root

\* C6: in every state (after construction, during and after both passes)
\* the y of a node is its number of edges from the root.
C6_DepthCorrect == \A n \in tree : y[n] = Len(n)

C6_Witness ==
    /\ Laid
    /\ \E n \in tree : Len(n) >= 2 /\ y[n] = 2

\* C7: after layout(), every column has an integer value.
C7_IntegerColumns ==
    Laid => \A n \in tree : x[n] % Scale = 0

\* C8: a layout starts with the frontier 0 at every depth; no step of
\* Pass 1 lowers the frontier of any depth; a column handed out is >= 0 and
\* >= every column handed out earlier at that depth.
C8_FrontierMonotone ==
    [][ /\ Layout => \A d \in Depths : Get(nexts', d) = 0
        /\ (phase = "assign" /\ phase' = "assign") =>
              \A d \in Depths : Get(nexts', d) >= Get(nexts, d)
        /\ AssignPlace =>
              /\ x'[Top.node] >= 0
              /\ \A m \in tree : Precedes(m, Top.node) => x'[Top.node] >= x[m]
      ]_vars

C8_Witness ==
    /\ phase = "assign"
    /\ runs = 0
    /\ stack # << >>
    /\ Top.pc = "loop"
    /\ \E m \in tree : Precedes(m, Top.node) /\ mod[m] > 0
    /\ \E d \in DOMAIN nexts : nexts[d] % (2 * Scale) # 0

\* C9: after layout(), a node with children is exactly midway between its
\* leftmost and its rightmost child.
C9_ExactCentering ==
    Laid => \A n \in tree :
        Children(n) # {} =>
            2 * x[n] = MinX(Children(n)) + MaxX(Children(n))

C9_Witness ==
    /\ Laid
    /\ \E n, m, k \in tree :
          /\ Children(n) # {} /\ mod[n] > 0
          /\ Children(m) # {} /\ mod[m] = 0 /\ x1[m] % (2 * Scale) # 0
          /\ Children(k) # {} /\ mod[k] = 0 /\ x1[k] = 0 /\ Len(k) >= 1
          /\ \E c \in tree : Len(c) >= 3 /\ x[c] # x1[c]

\* C10: when assign returns for a node, the frontier of its depth is at
\* least 2 columns right of it; at the end of Pass 1 two nodes of the same
\* depth visited consecutively are at least 2 columns apart.
C10_Pass1Spacing ==
    /\ [][AssignCenter =>
            Get(nexts', Top.depth) >= x'[Top.node] + 2 * Scale]_vars
    /\ [](EndOfPass1 => \A a, b \in tree :
            Consecutive(a, b) => x[b] >= x[a] + 2 * Scale)

C10_Witness ==
    /\ EndOfPass1
    /\ \E a, b \in tree :
          /\ Consecutive(a, b) /\ ~ Siblings(a, b)
          /\ x[b] >= x[a] + 2 * Scale
          /\ x[b] + AncestorMods(b) < x[a] + AncestorMods(a) + 2 * Scale

====
